---- MODULE Spec2Model ----
(***************************************************************************)
(* Link-set request builder, bond-port sub-builder and the request/reply   *)
(* transaction of rtnetlink (src/src/link/set.rs and                       *)
(* src/src/link/set_bond_port.rs).                                         *)
(*                                                                         *)
(* The caller holds one builder: a LinkSetRequest, or (after bondport) a   *)
(* BondPortSetRequest of one of the two variants the repository carries:   *)
(* the one of set.rs (fields request, info_slave_data; "slave") and the    *)
(* one of set_bond_port.rs (fields request, info_port_data; "port").       *)
(* execute consumes the builder, hands one NetlinkMessage to the handle    *)
(* and then polls the reply stream, one suspension point per reply.        *)
(***************************************************************************)
EXTENDS Integers, Sequences, FiniteSets, TLC

VARIABLES
    pc,          \* "Building", or where execute stands: "Draining", "Done", "Failed"
    builder,     \* the builder the caller holds or executed: "Link", "Slave", "Port"
    index_arg,   \* the index argument LinkSetRequest::new was called with
    request,     \* the LinkSetRequest: [message, replace]
    info_data,   \* BondPortSetRequest.info_slave_data / info_port_data
    sent,        \* the NetlinkMessages handed to handle.request, in order
    transport,   \* what handle.request returned: "none" before the call
    response,    \* the reply stream: "none", "open" or "ended"
    read,        \* the replies execute has read, in order
    result,      \* what execute returned
    scenario,    \* how far the calls made so far follow the documented scenario
    other        \* a second transaction over the same handle: its own execute

vars ==
    <<pc, builder, index_arg, request, info_data, sent, transport, response, read,
      result, scenario, other>>

(***************************************************************************)
(* Bounds of the model.                                                    *)
(***************************************************************************)
\* longest top-level attribute list the setters build (execute may add one)
MaxNlas == 2
\* longest bond-port data list
MaxData == 2
\* longest reply stream
MaxStream == 3

(***************************************************************************)
(* Program constants (netlink_packet_core / netlink_packet_route values    *)
(* imported by set.rs).                                                    *)
(***************************************************************************)
NLM_F_REQUEST == 1
NLM_F_ACK == 4
NLM_F_REPLACE == 256
NLM_F_EXCL == 512
NLM_F_CREATE == 1024
IFF_UP == 1
IFF_NOARP == 128
IFF_PROMISC == 256

(***************************************************************************)
(* Input domains.                                                          *)
(***************************************************************************)
Indexes == {9}
MasterIndexes == {0, 1}
Names == {"dummy0"}
Mtus == {1500}
Addresses == {<<2, 0, 0, 0, 0, 1>>}
Pids == {42}
Fds == {7}
QueueIds == {1}
Prios == {6}
FailureCounts == {3}
Kinds == {"Bond", "Other"}
ErrCodes == {1, 22}

(***************************************************************************)
(* Bitwise operators of the unsigned header words.  a | b and a & !b; the  *)
(* operands are below 2^32, so a & !b computed bit by bit is the u32       *)
(* result.                                                                 *)
(***************************************************************************)
RECURSIVE BitOr(_, _)
BitOr(a, b) ==
    IF a = 0 THEN b
    ELSE IF b = 0 THEN a
    ELSE (IF a % 2 = 1 \/ b % 2 = 1 THEN 1 ELSE 0) + 2 * BitOr(a \div 2, b \div 2)

RECURSIVE BitAnd(_, _)
BitAnd(a, b) ==
    IF a = 0 \/ b = 0 THEN 0
    ELSE (IF a % 2 = 1 /\ b % 2 = 1 THEN 1 ELSE 0) + 2 * BitAnd(a \div 2, b \div 2)

RECURSIVE BitAndNot(_, _)
BitAndNot(a, b) ==
    IF a = 0 THEN 0
    ELSE (IF a % 2 = 1 /\ b % 2 = 0 THEN 1 ELSE 0) + 2 * BitAndNot(a \div 2, b \div 2)

(***************************************************************************)
(* Attribute model.                                                        *)
(***************************************************************************)
Nla(type, value) == [type |-> type, value |-> value]

InfoKind(kind) == [type |-> "Kind", value |-> kind]

InfoData(data) == [type |-> "Data", value |-> data]

InfoBondPort(field, value) == [field |-> field, value |-> value]

None == [some |-> FALSE]

Some(x) == [some |-> TRUE, value |-> x]

LinkMessage_default == [index |-> 0, flags |-> 0, change_mask |-> 0, nlas |-> <<>>]

(***************************************************************************)
(* LinkSetRequest (set.rs).                                                *)
(***************************************************************************)
LinkSetRequest_new(index) ==
    LET message == [LinkMessage_default EXCEPT !.index = index]
    IN  [message |-> LinkMessage_default, replace |-> FALSE]

PushNla(self, nla) == [self EXCEPT !.message.nlas = Append(@, nla)]

\* master written as "set the master": a Master already in the list is
\* overwritten in place
master_Overwrite(self, master_index) ==
    LET nlas == self.message.nlas
        has == \E i \in 1..Len(nlas) : nlas[i].type = "Master"
    IN  IF has
        THEN [self EXCEPT !.message.nlas =
                 [i \in 1..Len(nlas) |->
                     IF nlas[i].type = "Master"
                     THEN Nla("Master", master_index)
                     ELSE nlas[i]]]
        ELSE PushNla(self, Nla("Master", master_index))

master(self, master_index) == PushNla(self, Nla("Master", master_index))

\* nomaster taking the Master attributes out of the list
nomaster_Strip(self) ==
    [self EXCEPT !.message.nlas = SelectSeq(@, LAMBDA nla : nla.type # "Master")]

nomaster(self) == PushNla(self, Nla("Master", 0))

up(self) ==
    [self EXCEPT !.message.flags = BitOr(@, IFF_UP),
                 !.message.change_mask = BitOr(@, IFF_UP)]

\* down written as a toggle of the UP flag
down_Toggle(self) ==
    [self EXCEPT !.message.flags = IF BitAnd(@, IFF_UP) = IFF_UP
                                   THEN BitAndNot(@, IFF_UP)
                                   ELSE BitOr(@, IFF_UP),
                 !.message.change_mask = BitOr(@, IFF_UP)]

down(self) ==
    [self EXCEPT !.message.flags = BitAndNot(@, IFF_UP),
                 !.message.change_mask = BitOr(@, IFF_UP)]

\* promiscuous assigning the two words instead of setting its bit in them
promiscuous_WholeWord(self, enable) ==
    [self EXCEPT !.message.flags = IF enable THEN IFF_PROMISC ELSE 0,
                 !.message.change_mask = IFF_PROMISC]

promiscuous(self, enable) ==
    [self EXCEPT !.message.flags = IF enable THEN BitOr(@, IFF_PROMISC)
                                   ELSE BitAndNot(@, IFF_PROMISC),
                 !.message.change_mask = BitOr(@, IFF_PROMISC)]

\* arp(true) taking IFF_NOARP out of the change-mask along with the flag
arp_Unmask(self, enable) ==
    [self EXCEPT !.message.flags = IF enable THEN BitAndNot(@, IFF_NOARP)
                                   ELSE BitOr(@, IFF_NOARP),
                 !.message.change_mask = IF enable THEN BitAndNot(@, IFF_NOARP)
                                         ELSE BitOr(@, IFF_NOARP)]

arp(self, enable) ==
    [self EXCEPT !.message.flags = IF enable THEN BitAndNot(@, IFF_NOARP)
                                   ELSE BitOr(@, IFF_NOARP),
                 !.message.change_mask = BitOr(@, IFF_NOARP)]

name(self, n) == PushNla(self, Nla("IfName", n))

mtu(self, m) == PushNla(self, Nla("Mtu", m))

address(self, a) == PushNla(self, Nla("Address", a))

setns_by_pid(self, pid) == PushNla(self, Nla("NetNsPid", pid))

setns_by_fd(self, fd) == PushNla(self, Nla("NetNsFd", fd))

\* replace written as a toggle of the flag
replace_Toggle(self) == [self EXCEPT !.replace = ~@]

replace(self) == [self EXCEPT !.replace = TRUE]

append_nla(self, nla) == PushNla(self, nla)

\* message_mut hands the caller a mutable reference to the LinkMessage
message_mut(self) == self.message

\* what a caller writes through that reference
MessageWrites == {"nlas.clear()", "nlas.pop()"}

message_write(message, w) ==
    IF w = "nlas.clear()"
    THEN [message EXCEPT !.nlas = <<>>]
    ELSE [message EXCEPT !.nlas = IF @ = <<>> THEN @ ELSE SubSeq(@, 1, Len(@) - 1)]

\* link_info pushing the data entry ahead of the kind marker
link_info_DataFirst(self, slavekind, slavedata) ==
    LET link_info_nlas ==
            IF slavedata.some
            THEN <<InfoData(slavedata.value), InfoKind(slavekind)>>
            ELSE <<InfoKind(slavekind)>>
    IN  append_nla(self, Nla("Info", link_info_nlas))

link_info(self, slavekind, slavedata) ==
    LET link_info_nlas ==
            IF slavedata.some
            THEN <<InfoKind(slavekind), InfoData(slavedata.value)>>
            ELSE <<InfoKind(slavekind)>>
    IN  append_nla(self, Nla("Info", link_info_nlas))

(***************************************************************************)
(* Building the NetlinkMessage (LinkSetRequest::execute, up to the send).  *)
(***************************************************************************)
NetlinkMessage_from(self) ==
    LET rep == IF self.replace THEN NLM_F_REPLACE ELSE NLM_F_EXCL
    IN  [flags |-> BitOr(BitOr(BitOr(BitOr(NLM_F_REQUEST, NLM_F_ACK), rep),
                               NLM_F_EXCL), NLM_F_CREATE),
         payload |-> "NewLink",
         message |-> self.message]

(***************************************************************************)
(* BondPortSetRequest of set.rs ("slave" variant).                         *)
(***************************************************************************)
BondPortSetRequest(req, data) == [request |-> req, info_slave_data |-> data]

BondPortData(fields) == [variant |-> "BondPort", fields |-> fields]

\* bondport wrapping the request without setting the name
bondport_NoName(self, n) == BondPortSetRequest(self, <<>>)

\* bondport starting the wrapped request afresh: only the name is kept
bondport_Fresh(self, n) ==
    BondPortSetRequest(name(LinkSetRequest_new(0), n), <<>>)

bondport(self, n) ==
    LET s == name(self, n)
    IN  BondPortSetRequest(s, <<>>)

Slave_up(self) == [self EXCEPT !.request = up(@)]

Slave_queue_id(self, q) ==
    [self EXCEPT !.info_slave_data = Append(@, InfoBondPort("QueueId", q))]

\* prio inserting its entry at the head of the list
Slave_prio_Front(self, p) ==
    [self EXCEPT !.info_slave_data = <<InfoBondPort("Prio", p)>> \o @]

Slave_prio(self, p) ==
    [self EXCEPT !.info_slave_data = Append(@, InfoBondPort("Prio", p))]

Slave_linkfailurecount(self, c) ==
    [self EXCEPT !.info_slave_data = Append(@, InfoBondPort("LinkFailureCount", c))]

Slave_match_name(self, n) ==
    [self EXCEPT !.request.message.nlas = Append(@, Nla("IfName", n))]

\* the LinkSetRequest that BondPortSetRequest::execute of set.rs executes
Slave_execute_request(self) ==
    link_info(self.request, "Bond", Some(BondPortData(self.info_slave_data)))

(***************************************************************************)
(* BondPortSetRequest of set_bond_port.rs ("port" variant).                *)
(***************************************************************************)
Port_BondPortSetRequest(req, data) == [request |-> req, info_port_data |-> data]

Port_queue_id(self, q) ==
    [self EXCEPT !.info_port_data = Append(@, InfoBondPort("QueueId", q))]

Port_prio(self, p) ==
    [self EXCEPT !.info_port_data = Append(@, InfoBondPort("Prio", p))]

port_link_info(self, portkind, portdata) ==
    LET link_info_nlas ==
            IF portdata.some
            THEN <<InfoKind(portkind), InfoData(portdata.value)>>
            ELSE <<InfoKind(portkind)>>
    IN  [self EXCEPT !.request.message.nlas = Append(@, Nla("Info", link_info_nlas))]

\* the LinkSetRequest that BondPortSetRequest::execute of set_bond_port.rs
\* executes
Port_execute_request(self) ==
    port_link_info(self, "Bond", Some(BondPortData(self.info_port_data))).request

(***************************************************************************)
(* The collaborators of execute: the connection handle and the reply       *)
(* interpretation rule.                                                    *)
(***************************************************************************)
Reply(code) == [code |-> code]

Replies == {Reply(c) : c \in {0} \cup ErrCodes}

TransportErrors == {"RequestFailed", "ConnectionClosed"}

\* handle.request(req): a transport error, or a stream of replies
HandleRequest ==
    {[ok |-> FALSE, error |-> e] : e \in TransportErrors}
    \cup {[ok |-> TRUE, error |-> "none"]}

\* response.next(): the next reply of the stream, or its end; a stream
\* yields at most MaxStream replies
StreamNext(nread) ==
    {None} \cup (IF nread < MaxStream THEN {Some(r) : r \in Replies} ELSE {})

Pending == [tag |-> "Pending", error |-> "none", code |-> 0]

Ok == [tag |-> "Ok", error |-> "none", code |-> 0]

Err(error, code) == [tag |-> "Err", error |-> error, code |-> code]

\* try_nl!(message): an error return, or nothing (the loop goes on)
try_nl(message) ==
    IF message.code = 0 THEN None ELSE Some(Err("NetlinkError", message.code))

(***************************************************************************)
(* The documented scenario                                                 *)
(*   set(i).name(n).bondport(n).queue_id(q).prio(p).up().execute()         *)
(* followed call by call: step k says that the calls made so far are       *)
(* exactly its first k calls, with the arguments recorded; -1 says that    *)
(* the caller left it.                                                     *)
(***************************************************************************)
ScenarioCalls == <<"name", "bondport", "queue_id", "prio", "up", "execute">>

ScenarioOff == [step |-> -1, n |-> "", q |-> 0, p |-> 0]

ScenarioStart == [step |-> 0, n |-> "", q |-> 0, p |-> 0]

Follows(call) ==
    /\ scenario.step >= 0
    /\ scenario.step < Len(ScenarioCalls)
    /\ ScenarioCalls[scenario.step + 1] = call

Advance(call) ==
    IF Follows(call) THEN [scenario EXCEPT !.step = @ + 1] ELSE ScenarioOff

\* the argument of a scenario call, kept while the scenario is followed
Record(s, field, arg) == IF s.step >= 0 THEN [s EXCEPT ![field] = arg] ELSE s

(***************************************************************************)
(* A second transaction: another LinkSetRequest::execute running over the  *)
(* same connection handle, with its own request and its own reply stream.  *)
(***************************************************************************)
OtherRequests ==
    {LinkSetRequest_new(i) : i \in Indexes}
    \cup {replace(LinkSetRequest_new(i)) : i \in Indexes}

OtherIdle ==
    [pc |-> "Building", request |-> LinkSetRequest_new(0), sent |-> <<>>,
     transport |-> "none", response |-> "none", read |-> <<>>, result |-> Pending]

(***************************************************************************)
(* State machine.                                                          *)
(***************************************************************************)
Init ==
    /\ pc = "Building"
    /\ builder = "Link"
    /\ index_arg \in Indexes
    /\ request = LinkSetRequest_new(index_arg)
    /\ info_data = <<>>
    /\ sent = <<>>
    /\ transport = "none"
    /\ response = "none"
    /\ read = <<>>
    /\ result = Pending
    /\ scenario = ScenarioStart
    /\ other = OtherIdle

Room == Len(request.message.nlas) < MaxNlas

DataRoom == Len(info_data) < MaxData

\* a LinkSetRequest setter call: the caller keeps a LinkSetRequest
LinkCall(next) ==
    /\ pc = "Building"
    /\ builder = "Link"
    /\ request' = next
    /\ UNCHANGED <<pc, builder, index_arg, info_data, sent, transport, response, read, result, other>>

Master ==
    /\ Room
    /\ \E i \in MasterIndexes : LinkCall(master(request, i))
    /\ scenario' = ScenarioOff

NoMaster == Room /\ LinkCall(nomaster(request)) /\ scenario' = ScenarioOff

Up == LinkCall(up(request)) /\ scenario' = ScenarioOff

Down == LinkCall(down(request)) /\ scenario' = ScenarioOff

Promiscuous ==
    /\ \E enable \in BOOLEAN : LinkCall(promiscuous(request, enable))
    /\ scenario' = ScenarioOff

Arp ==
    /\ \E enable \in BOOLEAN : LinkCall(arp(request, enable))
    /\ scenario' = ScenarioOff

Name ==
    /\ Room
    /\ \E n \in Names :
          /\ LinkCall(name(request, n))
          /\ scenario' = Record(Advance("name"), "n", n)

Mtu == Room /\ (\E m \in Mtus : LinkCall(mtu(request, m))) /\ scenario' = ScenarioOff

Address ==
    /\ Room
    /\ \E a \in Addresses : LinkCall(address(request, a))
    /\ scenario' = ScenarioOff

SetnsByPid ==
    /\ Room
    /\ \E p \in Pids : LinkCall(setns_by_pid(request, p))
    /\ scenario' = ScenarioOff

SetnsByFd ==
    /\ Room
    /\ \E f \in Fds : LinkCall(setns_by_fd(request, f))
    /\ scenario' = ScenarioOff

Replace == LinkCall(replace(request)) /\ scenario' = ScenarioOff

\* message_mut is public: the caller may write to the message directly
MessageMut ==
    /\ \E w \in MessageWrites :
          LinkCall([request EXCEPT !.message = message_write(message_mut(request), w)])
    /\ scenario' = ScenarioOff

\* bondport(name): the caller now holds a BondPortSetRequest, of the set.rs
\* ("Slave") or of the set_bond_port.rs ("Port") variant; the second has the
\* same two fields and is built the same way
BondPort ==
    /\ pc = "Building"
    /\ builder = "Link"
    /\ Room
    /\ \E n \in Names :
          LET s == bondport(request, n)
          IN  /\ request' = s.request
              /\ info_data' = s.info_slave_data
              /\ scenario' = IF n = scenario.n THEN Advance("bondport") ELSE ScenarioOff
    /\ builder' \in {"Slave", "Port"}
    /\ UNCHANGED <<pc, index_arg, sent, transport, response, read, result, other>>

\* a call on the BondPortSetRequest of set.rs
BondCall(next) ==
    /\ pc = "Building"
    /\ builder = "Slave"
    /\ request' = next.request
    /\ info_data' = next.info_slave_data
    /\ UNCHANGED <<pc, builder, index_arg, sent, transport, response, read, result, other>>

\* a call on the BondPortSetRequest of set_bond_port.rs
PortCall(next) ==
    /\ pc = "Building"
    /\ builder = "Port"
    /\ request' = next.request
    /\ info_data' = next.info_port_data
    /\ UNCHANGED <<pc, builder, index_arg, sent, transport, response, read, result, other>>

Self == BondPortSetRequest(request, info_data)

PortSelf == Port_BondPortSetRequest(request, info_data)

SlaveUp == BondCall(Slave_up(Self)) /\ scenario' = Advance("up")

SlaveQueueId ==
    /\ DataRoom
    /\ \E q \in QueueIds :
          /\ BondCall(Slave_queue_id(Self, q))
          /\ scenario' = Record(Advance("queue_id"), "q", q)

SlavePrio ==
    /\ DataRoom
    /\ \E p \in Prios :
          /\ BondCall(Slave_prio(Self, p))
          /\ scenario' = Record(Advance("prio"), "p", p)

SlaveLinkFailureCount ==
    /\ DataRoom
    /\ \E c \in FailureCounts : BondCall(Slave_linkfailurecount(Self, c))
    /\ scenario' = ScenarioOff

SlaveMatchName ==
    /\ Room
    /\ \E n \in Names : BondCall(Slave_match_name(Self, n))
    /\ scenario' = ScenarioOff

PortQueueId ==
    /\ DataRoom
    /\ \E q \in QueueIds :
          /\ PortCall(Port_queue_id(PortSelf, q))
          /\ scenario' = Record(Advance("queue_id"), "q", q)

PortPrio ==
    /\ DataRoom
    /\ \E p \in Prios :
          /\ PortCall(Port_prio(PortSelf, p))
          /\ scenario' = Record(Advance("prio"), "p", p)

PortDatas == {None, Some(BondPortData(<<>>))}

\* port_link_info is public: the caller may call it before execute
PortLinkInfo ==
    /\ Room
    /\ \E k \in Kinds, d \in PortDatas : PortCall(port_link_info(PortSelf, k, d))
    /\ scenario' = ScenarioOff

\* execute dropping the handle's error and draining all the same
Send_IgnoresFailure(self) ==
    /\ pc = "Building"
    /\ request' = self
    /\ sent' = Append(sent, NetlinkMessage_from(self))
    /\ \E r \in HandleRequest :
          /\ transport' = IF r.ok THEN "stream" ELSE r.error
          /\ response' = "open"
          /\ pc' = "Draining"
          /\ result' = Pending
    /\ scenario' = Advance("execute")
    /\ UNCHANGED <<builder, index_arg, info_data, read, other>>

\* LinkSetRequest::execute up to its first suspension point: build the
\* request, hand it to the handle, return at once when the handle fails
Send(self) ==
    /\ pc = "Building"
    /\ request' = self
    /\ sent' = Append(sent, NetlinkMessage_from(self))
    /\ \E r \in HandleRequest :
          /\ transport' = IF r.ok THEN "stream" ELSE r.error
          /\ response' = IF r.ok THEN "open" ELSE "none"
          /\ IF r.ok
             THEN pc' = "Draining" /\ result' = Pending
             ELSE pc' = "Failed" /\ result' = Err(r.error, 0)
    /\ scenario' = Advance("execute")
    /\ UNCHANGED <<builder, index_arg, info_data, read, other>>

Execute == builder = "Link" /\ Send(request)

SlaveExecute == builder = "Slave" /\ Send(Slave_execute_request(Self))

PortExecute == builder = "Port" /\ Send(Port_execute_request(PortSelf))

\* the loop noting an error reply and draining on
Poll_PastError ==
    /\ pc = "Draining"
    /\ \E item \in StreamNext(Len(read)) :
          IF ~item.some
          THEN /\ pc' = IF result.tag = "Err" THEN "Failed" ELSE "Done"
               /\ result' = IF result.tag = "Err" THEN result ELSE Ok
               /\ response' = "ended"
               /\ UNCHANGED read
          ELSE LET message == item.value
                   ret == try_nl(message)
               IN  /\ read' = Append(read, message)
                   /\ result' = IF ret.some THEN ret.value ELSE result
                   /\ UNCHANGED <<pc, response>>
    /\ UNCHANGED <<builder, index_arg, request, info_data, sent, transport, scenario, other>>

\* `if let` in place of `while let`: success after the first reply
Poll_FirstOnly ==
    /\ pc = "Draining"
    /\ \E item \in StreamNext(Len(read)) :
          IF ~item.some
          THEN /\ pc' = "Done"
               /\ result' = Ok
               /\ response' = "ended"
               /\ UNCHANGED read
          ELSE LET message == item.value
                   ret == try_nl(message)
               IN  /\ read' = Append(read, message)
                   /\ IF ret.some
                      THEN pc' = "Failed" /\ result' = ret.value
                      ELSE pc' = "Done" /\ result' = Ok
                   /\ UNCHANGED response
    /\ UNCHANGED <<builder, index_arg, request, info_data, sent, transport, scenario, other>>

\* the loop sending the request again when a reply carries an error
Poll_Retry ==
    /\ pc = "Draining"
    /\ \E item \in StreamNext(Len(read)) :
          IF ~item.some
          THEN /\ pc' = "Done"
               /\ result' = Ok
               /\ response' = "ended"
               /\ UNCHANGED <<read, sent>>
          ELSE LET message == item.value
                   ret == try_nl(message)
               IN  /\ read' = Append(read, message)
                   /\ IF ret.some /\ Len(sent) < 2
                      THEN /\ sent' = Append(sent, sent[1])
                           /\ UNCHANGED <<pc, result>>
                      ELSE /\ UNCHANGED sent
                           /\ IF ret.some
                              THEN pc' = "Failed" /\ result' = ret.value
                              ELSE UNCHANGED <<pc, result>>
                   /\ UNCHANGED response
    /\ UNCHANGED <<builder, index_arg, request, info_data, transport, scenario, other>>

\* one turn of the loop `while let Some(message) = response.next().await`
Poll ==
    /\ pc = "Draining"
    /\ \E item \in StreamNext(Len(read)) :
          IF ~item.some
          THEN /\ pc' = "Done"
               /\ result' = Ok
               /\ response' = "ended"
               /\ UNCHANGED read
          ELSE LET message == item.value
                   ret == try_nl(message)
               IN  /\ read' = Append(read, message)
                   /\ IF ret.some
                      THEN pc' = "Failed" /\ result' = ret.value
                      ELSE UNCHANGED <<pc, result>>
                   /\ UNCHANGED response
    /\ UNCHANGED <<builder, index_arg, request, info_data, sent, transport, scenario, other>>

\* the second execute up to its first suspension point
OtherExecute ==
    /\ other.pc = "Building"
    /\ \E self \in OtherRequests, r \in HandleRequest :
          other' = [pc |-> IF r.ok THEN "Draining" ELSE "Failed",
                    request |-> self,
                    sent |-> <<NetlinkMessage_from(self)>>,
                    transport |-> IF r.ok THEN "stream" ELSE r.error,
                    response |-> IF r.ok THEN "open" ELSE "none",
                    read |-> <<>>,
                    result |-> IF r.ok THEN Pending ELSE Err(r.error, 0)]
    /\ UNCHANGED <<pc, builder, index_arg, request, info_data, sent, transport,
                   response, read, result, scenario>>

\* the loops keeping their outcome in one place shared by the transactions:
\* an error reply read by the second fails the first as well
OtherPoll_SharedOutcome ==
    /\ other.pc = "Draining"
    /\ \E item \in StreamNext(Len(other.read)) :
          IF ~item.some
          THEN /\ other' = [other EXCEPT !.pc = "Done", !.result = Ok,
                                         !.response = "ended"]
               /\ UNCHANGED <<pc, result>>
          ELSE LET message == item.value
                   ret == try_nl(message)
               IN  /\ other' = IF ret.some
                               THEN [other EXCEPT !.read = Append(@, message),
                                                  !.pc = "Failed",
                                                  !.result = ret.value]
                               ELSE [other EXCEPT !.read = Append(@, message)]
                   /\ IF ret.some /\ pc = "Draining"
                      THEN pc' = "Failed" /\ result' = ret.value
                      ELSE UNCHANGED <<pc, result>>
    /\ UNCHANGED <<builder, index_arg, request, info_data, sent, transport,
                   response, read, scenario>>

\* one turn of the second execute's loop, on its own reply stream
OtherPoll ==
    /\ other.pc = "Draining"
    /\ \E item \in StreamNext(Len(other.read)) :
          IF ~item.some
          THEN other' = [other EXCEPT !.pc = "Done", !.result = Ok,
                                      !.response = "ended"]
          ELSE LET message == item.value
                   ret == try_nl(message)
               IN  other' = IF ret.some
                            THEN [other EXCEPT !.read = Append(@, message),
                                               !.pc = "Failed",
                                               !.result = ret.value]
                            ELSE [other EXCEPT !.read = Append(@, message)]
    /\ UNCHANGED <<pc, builder, index_arg, request, info_data, sent, transport,
                   response, read, result, scenario>>

Next ==
    \/ Master \/ NoMaster \/ Up \/ Down \/ Promiscuous \/ Arp
    \/ Name \/ Mtu \/ Address \/ SetnsByPid \/ SetnsByFd \/ Replace
    \/ MessageMut
    \/ BondPort
    \/ SlaveUp \/ SlaveQueueId \/ SlavePrio \/ SlaveLinkFailureCount \/ SlaveMatchName
    \/ PortQueueId \/ PortPrio \/ PortLinkInfo
    \/ Execute \/ SlaveExecute \/ PortExecute
    \/ Poll

Spec == Init /\ [][Next]_vars

\* the reply stream is polled until it yields: no poll is postponed forever
LiveSpec == Spec /\ WF_vars(Poll)

\* two requests executed concurrently: the send and drain steps of the two
\* execute interleave in every order
ConcNext == Execute \/ Poll \/ OtherExecute \/ OtherPoll

ConcSpec == Init /\ [][ConcNext]_vars

(***************************************************************************)
(* Properties.                                                             *)
(***************************************************************************)
Last(s) == s[Len(s)]

Executed == Len(sent) >= 1

ByBondPort == builder \in {"Slave", "Port"}

\* the Info attribute BondPortSetRequest::execute appended to the request
ExecuteInfo == Last(sent[1].message.nlas)

\* C1: draining stops at the first reply that carries an error: an error
\* reply is always the last reply read, execute has then failed, and its
\* result is the code of that first error reply.
C1_FirstErrorEndsDraining ==
    /\ \A i \in 1..Len(read) :
          read[i].code # 0 =>
              /\ i = Len(read)
              /\ pc = "Failed"
              /\ result = Err("NetlinkError", read[i].code)
    /\ (result.tag = "Err" /\ result.error = "NetlinkError") =>
          /\ read # <<>>
          /\ Last(read).code # 0
          /\ Last(read).code = result.code

C1_Witness ==
    /\ pc = "Failed"
    /\ read = <<Reply(0), Reply(0), Reply(22)>>
    /\ result = Err("NetlinkError", 22)

\* C2: the request submitted at execute carries, in its link header, the
\* interface index LinkSetRequest::new was given.
C2_IndexCarried ==
    \A k \in 1..Len(sent) : sent[k].message.index = index_arg

\* C3: the request header flags are REQUEST|ACK|CREATE|EXCLUSIVE without
\* replace() and REQUEST|ACK|CREATE|REPLACE (no EXCLUSIVE bit) with it.
C3_ReplaceFlags ==
    \A k \in 1..Len(sent) :
        sent[k].flags =
            IF request.replace
            THEN NLM_F_REQUEST + NLM_F_ACK + NLM_F_CREATE + NLM_F_REPLACE
            ELSE NLM_F_REQUEST + NLM_F_ACK + NLM_F_CREATE + NLM_F_EXCL

\* C4: the Info attribute that BondPortSetRequest::execute appends holds the
\* data sub-attribute if and only if the bond-port data list is non-empty;
\* with an empty list it holds the kind marker alone.
C4_DataIffNonEmpty ==
    (Executed /\ ByBondPort) =>
        /\ ExecuteInfo.type = "Info"
        /\ ExecuteInfo.value[1] = InfoKind("Bond")
        /\ (Len(ExecuteInfo.value) = 2) <=> (info_data # <<>>)
        /\ (info_data = <<>>) => (ExecuteInfo.value = <<InfoKind("Bond")>>)

InfoWellFormed(info) ==
    /\ Len(info) \in {1, 2}
    /\ info[1].type = "Kind"
    /\ Len(info) = 2 => info[2].type = "Data"

InfosWellFormed(nlas) ==
    \A i \in 1..Len(nlas) : nlas[i].type = "Info" => InfoWellFormed(nlas[i].value)

\* C5: in every Info attribute the builders produce, in the request being
\* built and in the request sent, the kind marker is the first element and
\* a data sub-attribute, when present, comes after it; the Info attribute
\* execute appends has the kind Bond.
C5_KindBeforeData ==
    /\ InfosWellFormed(request.message.nlas)
    /\ \A k \in 1..Len(sent) : InfosWellFormed(sent[k].message.nlas)
    /\ (Executed /\ ByBondPort) =>
          /\ ExecuteInfo.type = "Info"
          /\ ExecuteInfo.value[1] = InfoKind("Bond")

C5_Witness ==
    /\ Executed
    /\ builder = "Slave"
    /\ ExecuteInfo.type = "Info"
    /\ Len(ExecuteInfo.value) = 2
    /\ ExecuteInfo.value[2].type = "Data"
    /\ ExecuteInfo.value[2].value.fields # <<>>

ScenarioDone == scenario.step = Len(ScenarioCalls)

ScenarioInfo ==
    Nla("Info",
        <<InfoKind("Bond"),
          InfoData(BondPortData(<<InfoBondPort("QueueId", scenario.q),
                                  InfoBondPort("Prio", scenario.p)>>))>>)

ScenarioHeaders ==
    /\ BitAnd(sent[1].message.flags, IFF_UP) = IFF_UP
    /\ BitAnd(sent[1].message.change_mask, IFF_UP) = IFF_UP
    /\ sent[1].flags = NLM_F_REQUEST + NLM_F_ACK + NLM_F_CREATE + NLM_F_EXCL

\* C6 as stated: after set(i).name(n).bondport(n).queue_id(q).prio(p).up()
\* and execute, the submitted message has exactly the two top-level
\* attributes IfName(n), Info[kind Bond, data BondPort[QueueId(q), Prio(p)]],
\* UP in flags and change-mask, and header flags REQUEST|ACK|CREATE|EXCLUSIVE.
C6_ScenarioTwoAttributes ==
    ScenarioDone =>
        /\ sent[1].message.nlas = <<Nla("IfName", scenario.n), ScenarioInfo>>
        /\ ScenarioHeaders

\* C6 as amended: the submitted message has three top-level attributes,
\* IfName(n) from name, IfName(n) again from bondport, then the Info
\* attribute; the headers are as stated.
C6_ScenarioThreeAttributes ==
    ScenarioDone =>
        /\ sent[1].message.nlas =
              <<Nla("IfName", scenario.n), Nla("IfName", scenario.n), ScenarioInfo>>
        /\ ScenarioHeaders

C6_Witness ==
    /\ ScenarioDone
    /\ Executed
    /\ builder = "Slave"
    /\ scenario.n = "dummy0"
    /\ scenario.q = 1
    /\ scenario.p = 6
    /\ Len(sent[1].message.nlas) = 3

IsPrefix(old, new) ==
    /\ Len(old) <= Len(new)
    /\ \A i \in 1..Len(old) : new[i] = old[i]

\* C7: a LinkSetRequest setter call leaves the top-level attribute list as
\* it was or appends one attribute at its end; nothing already in the list
\* is removed, moved or rewritten.
C7_AppendOnly ==
    [][(pc = "Building" /\ builder = "Link" /\ pc' = "Building" /\ ~MessageMut) =>
          /\ IsPrefix(request.message.nlas, request'.message.nlas)
          /\ Len(request'.message.nlas) <= Len(request.message.nlas) + 1]_vars

C7_Witness ==
    /\ pc = "Building"
    /\ builder = "Link"
    /\ request.message.nlas = <<Nla("Master", 1), Nla("Master", 0)>>

\* C8: execute returns success only when the stream has ended and every
\* reply read carried no error; a reply without an error code keeps
\* execute draining; and a started drain always ends in Done or Failed.
C8_DrainsToTheEnd ==
    /\ [](result = Ok => (pc = "Done" /\ response = "ended"
                          /\ \A i \in 1..Len(read) : read[i].code = 0))
    /\ [][(pc = "Draining" /\ read' # read /\ Last(read').code = 0)
             => pc' = "Draining"]_vars
    /\ [](pc = "Draining" => <>(pc \in {"Done", "Failed"}))

C8_Witness ==
    /\ pc = "Done"
    /\ result = Ok
    /\ response = "ended"
    /\ read = <<Reply(0), Reply(0), Reply(0)>>

\* C9: when the handle fails to dispatch the request, execute has failed
\* with exactly the handle's error, the stream was never opened and no
\* reply was read.
C9_TransportErrorReturned ==
    transport \in TransportErrors =>
        /\ pc = "Failed"
        /\ result = Err(transport, 0)
        /\ response = "none"
        /\ read = <<>>

C9_Witness ==
    /\ transport = "ConnectionClosed"
    /\ pc = "Failed"
    /\ result = Err("ConnectionClosed", 0)
    /\ Executed

\* C10: one execute sends the request once, whatever the outcome, and its
\* steps come in the order build, send, drain, return: nothing is sent
\* while building, replies are read only after the one send succeeded, and
\* a result exists only once execute has ended.
C10_SentOnce ==
    /\ Len(sent) <= 1
    /\ pc = "Building" <=> sent = <<>>
    /\ pc = "Building" => (transport = "none" /\ read = <<>> /\ result = Pending)
    /\ read # <<>> => (Len(sent) = 1 /\ transport = "stream")
    /\ pc = "Draining" => (transport = "stream" /\ result = Pending)
    /\ result # Pending <=> pc \in {"Done", "Failed"}

C10_Witness ==
    /\ builder \in {"Slave", "Port"}
    /\ pc = "Failed"
    /\ result.error = "NetlinkError"
    /\ Len(sent) = 1
    /\ Len(read) = 2

HasBit(word, bit) == BitAnd(word, bit) = bit

LinkBuilding == pc = "Building" /\ builder = "Link"

\* C11: on every LinkSetRequest being built, up() leaves the UP flag set and
\* down() leaves it cleared, whatever was called before, so the UP flag
\* equals the last of any sequence of up()/down() calls; either call leaves
\* the UP bit of the change-mask set; and a second up() (or down()) changes
\* nothing: the bits are ORed in, never accumulated.
C11_UpDownLastWins ==
    LinkBuilding =>
        LET u == up(request)
            d == down(request)
        IN  /\ HasBit(u.message.flags, IFF_UP)
            /\ ~HasBit(d.message.flags, IFF_UP)
            /\ HasBit(u.message.change_mask, IFF_UP)
            /\ HasBit(d.message.change_mask, IFF_UP)
            /\ up(u) = u
            /\ down(d) = d
            /\ down(u) = d
            /\ up(d) = u
            /\ u.message.change_mask = d.message.change_mask
            /\ u.message.change_mask \in
                  {request.message.change_mask, request.message.change_mask + IFF_UP}

\* the last call was down(): UP cleared, its change-mask bit set
C11_Witness ==
    /\ LinkBuilding
    /\ request.message.flags = 0
    /\ request.message.change_mask = IFF_UP

\* C12: the step that hands the caller a BondPortSetRequest is a bondport
\* call on a LinkSetRequest being built: it appends exactly one IfName to
\* the attribute list, leaves the attributes already there, the link header
\* (index, flags, change-mask) and the replace flag as they were, and starts
\* with an empty bond-port data list; no data exists before it, and the
\* caller never gets a LinkSetRequest back.
C12_BondPortWraps ==
    /\ [](builder = "Link" => info_data = <<>>)
    /\ [][builder' # builder =>
             /\ builder = "Link"
             /\ pc = "Building" /\ pc' = "Building"
             /\ \E n \in Names :
                   request'.message.nlas =
                       Append(request.message.nlas, Nla("IfName", n))
             /\ request'.message.index = request.message.index
             /\ request'.message.flags = request.message.flags
             /\ request'.message.change_mask = request.message.change_mask
             /\ request'.replace = request.replace
             /\ info_data' = <<>>]_vars

C12_Witness ==
    /\ pc = "Building"
    /\ builder = "Slave"
    /\ info_data = <<>>
    /\ request.replace
    /\ request.message.flags = IFF_NOARP
    /\ request.message.change_mask = IFF_NOARP + IFF_UP
    /\ request.message.nlas = <<Nla("Mtu", 1500), Nla("IfName", "dummy0")>>

\* the data payload of the Info attribute execute appended
ExecuteData == ExecuteInfo.value[2].value.fields

\* C13: on every BondPortSetRequest being built, queue_id, prio and
\* linkfailurecount each append exactly one entry, of their own field and
\* with the value given, at the end of the bond-port data list, whatever the
\* list already holds; and the data payload sent at execute is that list,
\* entry for entry in call order: nothing merged, nothing added for a field
\* that was not set.
C13_DataInCallOrder ==
    /\ (pc = "Building" /\ builder = "Slave") =>
          /\ \A q \in QueueIds :
                Slave_queue_id(Self, q).info_slave_data =
                    Append(info_data, InfoBondPort("QueueId", q))
          /\ \A p \in Prios :
                Slave_prio(Self, p).info_slave_data =
                    Append(info_data, InfoBondPort("Prio", p))
          /\ \A c \in FailureCounts :
                Slave_linkfailurecount(Self, c).info_slave_data =
                    Append(info_data, InfoBondPort("LinkFailureCount", c))
    /\ (pc = "Building" /\ builder = "Port") =>
          /\ \A q \in QueueIds :
                Port_queue_id(PortSelf, q).info_port_data =
                    Append(info_data, InfoBondPort("QueueId", q))
          /\ \A p \in Prios :
                Port_prio(PortSelf, p).info_port_data =
                    Append(info_data, InfoBondPort("Prio", p))
    /\ (Executed /\ ByBondPort) =>
          /\ Len(ExecuteInfo.value) = 2
          /\ ExecuteData = info_data

\* prio was called twice and queue_id never: two Prio entries are sent
C13_Witness ==
    /\ Executed
    /\ builder = "Slave"
    /\ info_data = <<InfoBondPort("Prio", 6), InfoBondPort("Prio", 6)>>
    /\ ExecuteData = info_data

InfoPositions(nlas) == {i \in 1..Len(nlas) : nlas[i].type = "Info"}

C15_NoMasterIsMasterZero ==
    LinkBuilding =>
        /\ nomaster(request) = master(request, 0)
        /\ nomaster(request) =
              [request EXCEPT !.message.nlas = Append(@, Nla("Master", 0))]

\* a builder on which nomaster() (or master(0)) was the last call
C15_Witness ==
    /\ LinkBuilding
    /\ request.replace
    /\ request.message.nlas = <<Nla("Mtu", 1500), Nla("Master", 0)>>

\* C16: on every LinkSetRequest being built, replace() called twice gives
\* the builder replace() called once gives, and so the same request header
\* flags at execute; replace() leaves the link message (attributes, header
\* flags, change-mask, index) as it was; and it may be called before or
\* after any other setter with the same result.
C16_ReplaceIdempotent ==
    LinkBuilding =>
        LET once == replace(request)
            twice == replace(once)
        IN  /\ twice = once
            /\ NetlinkMessage_from(twice).flags = NetlinkMessage_from(once).flags
            /\ once.replace
            /\ once.message = request.message
            /\ replace(up(request)) = up(once)
            /\ replace(down(request)) = down(once)
            /\ \A e \in BOOLEAN :
                  /\ replace(promiscuous(request, e)) = promiscuous(once, e)
                  /\ replace(arp(request, e)) = arp(once, e)
            /\ \A i \in MasterIndexes : replace(master(request, i)) = master(once, i)
            /\ \A n \in Names : replace(name(request, n)) = name(once, n)
            /\ \A m \in Mtus : replace(mtu(request, m)) = mtu(once, m)

\* a request sent after replace() and other setters, in either order
C16_Witness ==
    /\ Executed
    /\ builder = "Link"
    /\ request.replace
    /\ request.message.flags = IFF_UP
    /\ request.message.nlas = <<Nla("IfName", "dummy0")>>
    /\ sent[1].flags = NetlinkMessage_from(replace(replace(request))).flags

\* the builders a LinkSetRequest setter call can return
LinkSetterResults(r) ==
    {up(r), down(r), nomaster(r), replace(r)}
    \cup {promiscuous(r, e) : e \in BOOLEAN}
    \cup {arp(r, e) : e \in BOOLEAN}
    \cup {master(r, i) : i \in MasterIndexes}
    \cup {name(r, n) : n \in Names}
    \cup {mtu(r, m) : m \in Mtus}
    \cup {address(r, a) : a \in Addresses}
    \cup {setns_by_pid(r, p) : p \in Pids}
    \cup {setns_by_fd(r, f) : f \in Fds}
    \cup {bondport(r, n).request : n \in Names}

\* the wrapped requests a BondPortSetRequest setter call can leave
BondSetterResults ==
    IF builder = "Slave"
    THEN {Slave_up(Self).request}
         \cup {Slave_match_name(Self, n).request : n \in Names}
    ELSE {}

\* C17: between construction and execute the LinkMessage changes only
\* through the builders' setter calls: every step that changes the message
\* of a request being built gives the message one setter call gives.
C17_OnlySetters ==
    [][(pc = "Building" /\ pc' = "Building"
           /\ request'.message # request.message) =>
          IF builder = "Link"
          THEN request' \in LinkSetterResults(request)
          ELSE request' \in BondSetterResults]_vars

\* the first transaction, as a record of the same shape as the second
First ==
    [pc |-> pc, request |-> request, sent |-> sent, transport |-> transport,
     response |-> response, read |-> read, result |-> result]

\* the outcome of a transaction is that of its own request and own stream
OwnOutcome(t) ==
    /\ t.sent = IF t.pc = "Building" THEN <<>> ELSE <<NetlinkMessage_from(t.request)>>
    /\ t.pc \in {"Building", "Draining"} =>
          /\ t.result = Pending
          /\ \A i \in 1..Len(t.read) : t.read[i].code = 0
    /\ t.pc = "Done" =>
          /\ t.result = Ok
          /\ t.response = "ended"
          /\ \A i \in 1..Len(t.read) : t.read[i].code = 0
    /\ t.pc = "Failed" =>
          IF t.transport \in TransportErrors
          THEN t.result = Err(t.transport, 0) /\ t.read = <<>>
          ELSE /\ t.read # <<>>
               /\ Last(t.read).code # 0
               /\ t.result = Err("NetlinkError", Last(t.read).code)

\* C18: of two transactions executing concurrently over the same handle,
\* each with its own reply stream, every step of one leaves the other as it
\* was, under every interleaving of their send and drain steps; the result
\* of each is that of its own request and own replies: an error reply in
\* one fails that one only, and the other succeeds when its own stream
\* ends without an error.
C18_NoInterference ==
    /\ [](OwnOutcome(First) /\ OwnOutcome(other))
    /\ [][(First' # First) => (other' = other)]_vars

\* both were draining; the first failed on an error reply, the second
\* succeeded
C18_Witness ==
    /\ pc = "Failed"
    /\ read = <<Reply(0), Reply(22)>>
    /\ result = Err("NetlinkError", 22)
    /\ other.pc = "Done"
    /\ other.result = Ok
    /\ other.read = <<Reply(0), Reply(0)>>
    /\ other.request.replace

\* the builders a flag setter call can return
FlagSetterResults(r) ==
    {up(r), down(r)}
    \cup {promiscuous(r, e) : e \in BOOLEAN}
    \cup {arp(r, e) : e \in BOOLEAN}

\* C19: in every state the builders reach, every bit set in the link header
\* flags is set in the change-mask as well, in the request being built and
\* in the message sent; and a call of up, down, promiscuous or arp on a
\* request being built keeps every bit of the change-mask that was set.
C19_FlagsWithinMask ==
    /\ BitAndNot(request.message.flags, request.message.change_mask) = 0
    /\ \A k \in 1..Len(sent) :
          BitAndNot(sent[k].message.flags, sent[k].message.change_mask) = 0
    /\ LinkBuilding =>
          \A s \in FlagSetterResults(request) :
              /\ BitAndNot(request.message.change_mask, s.message.change_mask) = 0
              /\ BitAndNot(s.message.flags, s.message.change_mask) = 0

\* all three bits were set and two of them cleared again
C19_Witness ==
    /\ LinkBuilding
    /\ request.message.flags = IFF_NOARP
    /\ request.message.change_mask = IFF_UP + IFF_NOARP + IFF_PROMISC

\* s differs from r in the flag bit `bit` at most
OwnBitOnly(r, s, bit) ==
    /\ s.message.nlas = r.message.nlas
    /\ s.message.index = r.message.index
    /\ s.replace = r.replace
    /\ BitAndNot(s.message.flags, bit) = BitAndNot(r.message.flags, bit)
    /\ BitAndNot(s.message.change_mask, bit) = BitAndNot(r.message.change_mask, bit)

\* s differs from r in the attribute list at most
AttributesOnly(r, s) ==
    /\ s.message.flags = r.message.flags
    /\ s.message.change_mask = r.message.change_mask
    /\ s.message.index = r.message.index
    /\ s.replace = r.replace

\* C20: on every builder being built, up and down change the UP bit of
\* flags and change-mask and nothing else, promiscuous and arp their own
\* bit and nothing else (attribute list and replace flag included); master,
\* nomaster, name, mtu, address, setns_by_pid and setns_by_fd leave header
\* flags, change-mask and replace flag as they were; and queue_id, prio and
\* linkfailurecount leave the wrapped request as it was.
C20_SettersKeepToTheirPart ==
    /\ LinkBuilding =>
          /\ OwnBitOnly(request, up(request), IFF_UP)
          /\ OwnBitOnly(request, down(request), IFF_UP)
          /\ \A e \in BOOLEAN :
                /\ OwnBitOnly(request, promiscuous(request, e), IFF_PROMISC)
                /\ OwnBitOnly(request, arp(request, e), IFF_NOARP)
          /\ \A i \in MasterIndexes : AttributesOnly(request, master(request, i))
          /\ AttributesOnly(request, nomaster(request))
          /\ \A n \in Names : AttributesOnly(request, name(request, n))
          /\ \A m \in Mtus : AttributesOnly(request, mtu(request, m))
          /\ \A a \in Addresses : AttributesOnly(request, address(request, a))
          /\ \A p \in Pids : AttributesOnly(request, setns_by_pid(request, p))
          /\ \A f \in Fds : AttributesOnly(request, setns_by_fd(request, f))
    /\ (pc = "Building" /\ builder = "Slave") =>
          /\ \A q \in QueueIds : Slave_queue_id(Self, q).request = request
          /\ \A p \in Prios : Slave_prio(Self, p).request = request
          /\ \A c \in FailureCounts : Slave_linkfailurecount(Self, c).request = request
    /\ (pc = "Building" /\ builder = "Port") =>
          /\ \A q \in QueueIds : Port_queue_id(PortSelf, q).request = request
          /\ \A p \in Prios : Port_prio(PortSelf, p).request = request

\* flag setters, attribute setters and a data setter were all called
C20_Witness ==
    /\ pc = "Building"
    /\ builder = "Slave"
    /\ info_data = <<InfoBondPort("QueueId", 1)>>
    /\ request.message.flags = IFF_PROMISC
    /\ request.message.change_mask = IFF_PROMISC + IFF_UP
    /\ request.message.nlas =
          <<Nla("Address", <<2, 0, 0, 0, 0, 1>>), Nla("IfName", "dummy0")>>

====
